---------------------------- MODULE Spec2Model ----------------------------
(***************************************************************************)
(* A model of the two network functions NF1 (src/nf1.go) and NF2           *)
(* (src/nf2.go): the server group supervisor (RunServer, startHTTPServer,  *)
(* the cancellation listener, main's return) and the request handlers      *)
(* (apiHandler, nf1Handler, handlerWithCtx) with NF1's correlator          *)
(* (the channel nf2Post and the shared payload nfBody).                    *)
(***************************************************************************)
EXTENDS Integers, Sequences, FiniteSets

(* ------------------------------------------------------------------ *)
(* Supervisor: program constants                                      *)
(* ------------------------------------------------------------------ *)

Nodes == {"NF1", "NF2"}

\* The servers RunServer owns, in the order the cancellation listener closes them.
Owned(n) == IF n = "NF1" THEN <<"API", "NF">> ELSE <<"NF2">>

Servers(n) == {Owned(n)[i] : i \in 1..Len(Owned(n))}

\* make(chan bool, 2), in both programs
StopChCap == 2

\* A supervisor that waits for a single completion signal whatever it owns.
ReceivesOnce(n) == 1

\* The number of <-stopServerCh receives RunServer performs before it returns.
Receives(n) == IF n = "NF1" THEN 2 ELSE 1

VARIABLES
    ctxDone,       \* [node] the context main created has been cancelled
    sigFired,      \* [node] the OS signal goroutine has called cancel()
    lstage,        \* [node] how many servers the cancellation listener has closed
    lsent,         \* [node] the cancellation listener has sent on stopServerCh
    tpc,           \* [node][server] position of the startHTTPServer goroutine
    inShutdown,    \* [node][server] Close has been called on the server
    closeCalls,    \* [node][server] number of Close invocations
    ownErr,        \* [node][server] the server's own listen error: "no", or
                   \* whether it came "before" or "after" the signal fired
    stopServerCh,  \* [node] number of values buffered in stopServerCh
    received,      \* [node] number of values RunServer has received
    mpc            \* [node] "running" (in RunServer), "returned", "exited"

supVars == <<ctxDone, sigFired, lstage, lsent, tpc, inShutdown, closeCalls,
             ownErr, stopServerCh, received, mpc>>

VARIABLES
    api,      \* [slot] apiHandler invocations (/nf2loc)
    nf2,      \* [Nf2Ids] handlerWithCtx invocations (/nf2)
    nf1,      \* [Nf1Ids] nf1Handler invocations (/nf1)
    nfBody,   \* NF1's package variable nfBody
    nf2Post   \* NF1's channel nf2Post: the buffered values, each tagged with its sender

xVars == <<api, nf2, nf1, nfBody, nf2Post>>

vars == <<ctxDone, sigFired, lstage, lsent, tpc, inShutdown, closeCalls,
          ownErr, stopServerCh, received, mpc, api, nf2, nf1, nfBody, nf2Post>>

SupInit ==
    /\ ctxDone = [n \in Nodes |-> FALSE]
    /\ sigFired = [n \in Nodes |-> FALSE]
    /\ lstage = [n \in Nodes |-> 0]
    /\ lsent = [n \in Nodes |-> FALSE]
    /\ tpc = [n \in Nodes |-> [s \in Servers(n) |-> "spawned"]]
    /\ inShutdown = [n \in Nodes |-> [s \in Servers(n) |-> FALSE]]
    /\ closeCalls = [n \in Nodes |-> [s \in Servers(n) |-> 0]]
    /\ ownErr = [n \in Nodes |-> [s \in Servers(n) |-> "no"]]
    /\ stopServerCh = [n \in Nodes |-> 0]
    /\ received = [n \in Nodes |-> 0]
    /\ mpc = [n \in Nodes |-> "running"]

\* Goroutines run only while the process lives: when main returns the program exits.
Alive(n) == mpc[n] # "exited"

\* A send on the buffered channel stopServerCh can complete.
CanSendStop(n) == stopServerCh[n] < StopChCap

\* main's signal goroutine: sig := <-osSignalCh; cancel()
Signal(n) ==
    /\ mpc[n] = "running"
    /\ ~sigFired[n]
    /\ sigFired' = [sigFired EXCEPT ![n] = TRUE]
    /\ ctxDone' = [ctxDone EXCEPT ![n] = TRUE]
    /\ UNCHANGED <<lstage, lsent, tpc, inShutdown, closeCalls, ownErr, stopServerCh,
                   received, mpc>>
    /\ UNCHANGED xVars

\* The cancellation listener, after <-ctx.Done(): the next server's Close().
ListenerClose(n) ==
    /\ Alive(n)
    /\ ctxDone[n]
    /\ lstage[n] < Len(Owned(n))
    /\ LET s == Owned(n)[lstage[n] + 1] IN
        /\ inShutdown' = [inShutdown EXCEPT ![n][s] = TRUE]
        /\ closeCalls' = [closeCalls EXCEPT ![n][s] = @ + 1]
    /\ lstage' = [lstage EXCEPT ![n] = @ + 1]
    /\ UNCHANGED <<ctxDone, sigFired, lsent, tpc, ownErr, stopServerCh, received, mpc>>
    /\ UNCHANGED xVars

\* The cancellation listener's last statement: stopServerCh <- true
ListenerSend(n) ==
    /\ Alive(n)
    /\ lstage[n] = Len(Owned(n))
    /\ ~lsent[n]
    /\ CanSendStop(n)
    /\ stopServerCh' = [stopServerCh EXCEPT ![n] = @ + 1]
    /\ lsent' = [lsent EXCEPT ![n] = TRUE]
    /\ UNCHANGED <<ctxDone, sigFired, lstage, tpc, inShutdown, closeCalls,
                   ownErr, received, mpc>>
    /\ UNCHANGED xVars

\* A server task that returns on its listen error without signalling.
TaskStartReturnOnError(n, s) ==
    /\ Alive(n)
    /\ tpc[n][s] = "spawned"
    /\ \/ /\ inShutdown[n][s]
          /\ tpc' = [tpc EXCEPT ![n][s] = "send"]
          /\ UNCHANGED ownErr
       \/ /\ ~inShutdown[n][s]
          /\ \E bindOk \in BOOLEAN :
               /\ tpc' = [tpc EXCEPT ![n][s] = IF bindOk THEN "serving" ELSE "done"]
               /\ ownErr' = [ownErr EXCEPT ![n][s] =
                               IF bindOk THEN "no"
                               ELSE IF sigFired[n] THEN "after" ELSE "before"]
    /\ UNCHANGED <<ctxDone, sigFired, lstage, lsent, inShutdown, closeCalls,
                   stopServerCh, received, mpc>>
    /\ UNCHANGED xVars

\* startHTTPServer enters ListenAndServe[TLS]: a server already closed returns
\* ErrServerClosed at once; otherwise the listener/TLS setup succeeds or fails.
TaskStart(n, s) ==
    /\ Alive(n)
    /\ tpc[n][s] = "spawned"
    /\ \/ /\ inShutdown[n][s]
          /\ tpc' = [tpc EXCEPT ![n][s] = "send"]
          /\ UNCHANGED ownErr
       \/ /\ ~inShutdown[n][s]
          /\ \E bindOk \in BOOLEAN :
               /\ tpc' = [tpc EXCEPT ![n][s] = IF bindOk THEN "serving" ELSE "send"]
               /\ ownErr' = [ownErr EXCEPT ![n][s] =
                               IF bindOk THEN "no"
                               ELSE IF sigFired[n] THEN "after" ELSE "before"]
    /\ UNCHANGED <<ctxDone, sigFired, lstage, lsent, inShutdown, closeCalls,
                   stopServerCh, received, mpc>>
    /\ UNCHANGED xVars

\* ListenAndServe[TLS] returns ErrServerClosed once Close has been called.
TaskServeReturn(n, s) ==
    /\ Alive(n)
    /\ tpc[n][s] = "serving"
    /\ inShutdown[n][s]
    /\ tpc' = [tpc EXCEPT ![n][s] = "send"]
    /\ UNCHANGED <<ctxDone, sigFired, lstage, lsent, inShutdown, closeCalls,
                   ownErr, stopServerCh, received, mpc>>
    /\ UNCHANGED xVars

\* startHTTPServer's last statement: stopServerCh <- true
TaskSend(n, s) ==
    /\ Alive(n)
    /\ tpc[n][s] = "send"
    /\ CanSendStop(n)
    /\ stopServerCh' = [stopServerCh EXCEPT ![n] = @ + 1]
    /\ tpc' = [tpc EXCEPT ![n][s] = "done"]
    /\ UNCHANGED <<ctxDone, sigFired, lstage, lsent, inShutdown, closeCalls,
                   ownErr, received, mpc>>
    /\ UNCHANGED xVars

startHTTPServer(n, s) ==
    \/ TaskStart(n, s)
    \/ TaskServeReturn(n, s)
    \/ TaskSend(n, s)

\* RunServer's <-stopServerCh; after the last one it returns to main, whose
\* deferred cancel() runs as main returns.
RunServerRecv(n) ==
    /\ mpc[n] = "running"
    /\ stopServerCh[n] > 0
    /\ stopServerCh' = [stopServerCh EXCEPT ![n] = @ - 1]
    /\ received' = [received EXCEPT ![n] = @ + 1]
    /\ IF received[n] + 1 = Receives(n)
         THEN /\ mpc' = [mpc EXCEPT ![n] = "returned"]
              /\ ctxDone' = [ctxDone EXCEPT ![n] = TRUE]
         ELSE UNCHANGED <<mpc, ctxDone>>
    /\ UNCHANGED <<sigFired, lstage, lsent, tpc, inShutdown, closeCalls, ownErr>>
    /\ UNCHANGED xVars

\* main has returned: the program exits and every other goroutine stops.
ProcessExit(n) ==
    /\ mpc[n] = "returned"
    /\ mpc' = [mpc EXCEPT ![n] = "exited"]
    /\ UNCHANGED <<ctxDone, sigFired, lstage, lsent, tpc, inShutdown, closeCalls,
                   ownErr, stopServerCh, received>>
    /\ UNCHANGED xVars

Nf1RunServer ==
    \/ Signal("NF1")
    \/ ListenerClose("NF1")
    \/ ListenerSend("NF1")
    \/ \E s \in Servers("NF1") : startHTTPServer("NF1", s)
    \/ RunServerRecv("NF1")
    \/ ProcessExit("NF1")

Nf2RunServer ==
    \/ Signal("NF2")
    \/ ListenerClose("NF2")
    \/ ListenerSend("NF2")
    \/ \E s \in Servers("NF2") : startHTTPServer("NF2", s)
    \/ RunServerRecv("NF2")
    \/ ProcessExit("NF2")

SupNext == Nf1RunServer \/ Nf2RunServer

(* ------------------------------------------------------------------ *)
(* Wire messages and the NF struct                                    *)
(* ------------------------------------------------------------------ *)

\* ver + cfg.LocalNfAPIRoot + cfg.HTTPConfig.NfEndpoint + "/nf1"
NF1Callback == "nf1-callback-url"

\* ver + cfg.LocalNfAPIRoot + cfg.NFEndpoint + "/nf2"
NF2Callback == "nf2-callback-url"

\* Some URL that is neither node's callback.
ExtLocation == "ext-url"

\* The zero value of type NF (times are modelled as clock readings, "" as 0).
ZeroNF == [Location |-> "", Time |-> 0]

\* A JSON member of a request body: a string, a value of another JSON type
\* ("bad": a number, an object, ...), or absent.
StrLoc(v) == [t |-> "str", v |-> v]
StrTime(v) == [t |-> "str", v |-> v]
BadLoc == [t |-> "bad", v |-> ""]
BadTime == [t |-> "bad", v |-> 0]
AbsentLoc == [t |-> "absent", v |-> ""]
AbsentTime == [t |-> "absent", v |-> 0]

\* Request bodies: k = "nil" (r.Body == nil), "ioerr" (the body cannot be read),
\* "empty" (no bytes), "syntax" (not well-formed JSON), "obj" (a JSON object).
NoObj(k) == [k |-> k, location |-> AbsentLoc, time |-> AbsentTime]
Obj(l, t) == [k |-> "obj", location |-> l, time |-> t]

\* json.Marshal of an NF value: both members, as strings.
Marshal(nf) == Obj(StrLoc(nf.Location), StrTime(nf.Time))

\* json.Decoder.Decode reads one whole JSON value first: an empty or malformed
\* body fails there, before anything is stored.
SyntaxOk(b) == b.k = "obj"

\* Storing one member into a string field: a string is stored, an absent
\* member leaves the field alone, a member of another type is skipped (and
\* remembered as an UnmarshalTypeError).
DecodeField(f, cur) == IF f.t = "str" THEN f.v ELSE cur

\* Decode reporting syntax errors only, a type mismatch passing as success.
DecodeErrSyntaxOnly(b) == ~SyntaxOk(b)

\* Decode returns a non-nil error.
DecodeErr(b) == ~SyntaxOk(b) \/ b.location.t = "bad" \/ b.time.t = "bad"

\* Decode into a fresh local variable (handlerWithCtx's nf1Body).
DecodeLocal(b) ==
    IF SyntaxOk(b)
      THEN [Location |-> DecodeField(b.location, ZeroNF.Location),
            Time |-> DecodeField(b.time, ZeroNF.Time)]
      ELSE ZeroNF

(* ------------------------------------------------------------------ *)
(* http.ResponseWriter                                                *)
(* ------------------------------------------------------------------ *)

\* status = 0: the header is not written yet.
NewRW == [status |-> 0, body |-> <<>>]

\* w.WriteHeader(code): takes effect only on the first call.
WriteHeader(w, code) == IF w.status = 0 THEN [w EXCEPT !.status = code] ELSE w

\* w.Write / fmt.Fprintf(w, ...): writes the header with 200 if none is written.
Write(w, data) == [WriteHeader(w, 200) EXCEPT !.body = Append(@, data)]

\* http.Error(w, msg, code)
HttpError(w, msg, code) == Write(WriteHeader(w, code), msg)

\* The handler returns: a response with no header written is sent as 200.
Finish(w) == WriteHeader(w, 200)

Ack == "Hello Thanks !!!"


(* ------------------------------------------------------------------ *)
(* Requests and handlers                                              *)
(* ------------------------------------------------------------------ *)

\* The number of requests that arrive from outside the two nodes.
MaxReq == 2

Slots == 1..MaxReq

\* /nf2 requests: the one apiHandler invocation i posts, or one from elsewhere.
Nf2Ids == ({"api"} \X Slots) \cup ({"ext"} \X Slots)

\* /nf1 requests: the follow-up of exchange i, or one from elsewhere.
Nf1Ids == ({"fu"} \X Slots) \cup ({"ext"} \X Slots)

NoId == <<"none", 0>>

\* time.Now().String(): a reading no other call returns. The handler of
\* exchange i on NF1 reads 2i - 1, NF2's handler of the same exchange 2i, and
\* NF2's handler of a request from elsewhere 2(MaxReq + i).
Now(id) ==
    IF id[1] = "nf1" THEN 2 * id[2] - 1
    ELSE IF id[1] = "api" THEN 2 * id[2]
    ELSE 2 * (MaxReq + id[2])

\* A channel made with room for two values.
Nf2PostCapTwo == 1 + 1

\* nf2Post = make(chan bool, 1)
Nf2PostCap == 1

\* Bodies a client other than the peer node may post.
ExtBodies ==
    { NoObj("nil"), NoObj("ioerr"), NoObj("empty"), NoObj("syntax"),
      Obj(StrLoc(ExtLocation), BadTime),
      Obj(StrLoc(ExtLocation), StrTime(0)) }

NewApi == [pc |-> "new", dumpErr |-> FALSE, cancelled |-> FALSE, from |-> NoId,
           tmp |-> ZeroNF, w |-> NewRW]

NewNf2 == [pc |-> "new", cancelled |-> FALSE, body |-> NoObj("none"),
           nf1Body |-> ZeroNF, target |-> "", sent |-> NoObj("none"),
           w |-> NewRW]

NewNf1 == [pc |-> "new", body |-> NoObj("none"), w |-> NewRW]

XInit ==
    /\ api = [h \in Slots |-> NewApi]
    /\ nf2 = [q \in Nf2Ids |-> NewNf2]
    /\ nf1 = [r \in Nf1Ids |-> NewNf1]
    /\ nfBody = ZeroNF
    /\ nf2Post = <<>>

Init == SupInit /\ XInit

\* The requests that have arrived from outside so far.
Admitted ==
    Cardinality({h \in Slots : api[h].pc # "new"})
  + Cardinality({e \in Slots : nf2[<<"ext", e>>].pc # "new"})
  + Cardinality({e \in Slots : nf1[<<"ext", e>>].pc # "new"})

(* ---------------- NF1: apiHandler (/nf2loc) ---------------- *)

\* A client posts to /nf2loc.
ApiArrive(h) ==
    /\ api[h].pc = "new"
    /\ IF h = 1 THEN TRUE ELSE api[h - 1].pc # "new"
    /\ Admitted < MaxReq
    /\ \E d \in BOOLEAN : api' = [api EXCEPT ![h].pc = "start", ![h].dumpErr = d]
    /\ UNCHANGED <<nf2, nf1, nfBody, nf2Post>>
    /\ UNCHANGED supVars

\* The client goes away (or the server is closed): r.Context() is cancelled.
ApiCtxCancel(h) ==
    /\ api[h].pc = "await"
    /\ ~api[h].cancelled
    /\ api' = [api EXCEPT ![h].cancelled = TRUE]
    /\ UNCHANGED <<nf2, nf1, nfBody, nf2Post>>
    /\ UNCHANGED supVars

\* From DumpRequest to client.Do(req) being under way.
ApiPost(h) ==
    /\ api[h].pc = "start"
    /\ IF api[h].dumpErr
         THEN /\ api' = [api EXCEPT ![h].pc = "done",
                                    ![h].w = HttpError(@, "dump error", 500)]
              /\ UNCHANGED nf2
         ELSE LET nf2body == [Location |-> NF1Callback, Time |-> Now(<<"nf1", h>>)] IN
              /\ api' = [api EXCEPT ![h].pc = "doing"]
              /\ nf2' = [nf2 EXCEPT ![<<"api", h>>] =
                           [NewNf2 EXCEPT !.pc = "start", !.body = Marshal(nf2body)]]
    /\ UNCHANGED <<nf1, nfBody, nf2Post>>
    /\ UNCHANGED supVars

\* A handler that answers from nfBody as soon as NF2 has responded, without
\* receiving from nf2Post.
ApiDoReturnSkipGate(h) ==
    /\ api[h].pc = "doing"
    /\ nf2[<<"api", h>>].pc = "done"
    /\ api' = [api EXCEPT ![h].pc = "rdLoc"]
    /\ UNCHANGED <<nf2, nf1, nfBody, nf2Post>>
    /\ UNCHANGED supVars

\* client.Do returns NF2's response, which NF2's server sends when its handler
\* returns (the handler never flushes).
ApiDoReturn(h) ==
    /\ api[h].pc = "doing"
    /\ nf2[<<"api", h>>].pc = "done"
    /\ api' = [api EXCEPT ![h].pc = "await"]
    /\ UNCHANGED <<nf2, nf1, nfBody, nf2Post>>
    /\ UNCHANGED supVars

\* A handler that logs the error of client.Do and carries on to the gate.
ApiDoFailNoReturn(h) ==
    /\ api[h].pc = "doing"
    /\ api' = [api EXCEPT ![h].pc = "await"]
    /\ UNCHANGED <<nf2, nf1, nfBody, nf2Post>>
    /\ UNCHANGED supVars

\* client.Do returns an error (transport failure, timeout, cancelled context):
\* the handler returns without writing.
ApiDoFail(h) ==
    /\ api[h].pc = "doing"
    /\ api' = [api EXCEPT ![h].pc = "done", ![h].w = Finish(@)]
    /\ UNCHANGED <<nf2, nf1, nfBody, nf2Post>>
    /\ UNCHANGED supVars

\* A receive that reads the buffered value and leaves it in the channel, so
\* that one deposit wakes every waiting receiver.
ApiWithdrawBroadcast(h) ==
    /\ api[h].pc = "await"
    /\ Len(nf2Post) > 0
    /\ nf2Post' = nf2Post
    /\ api' = [api EXCEPT ![h].pc = "rdLoc", ![h].from = Head(nf2Post)]
    /\ UNCHANGED <<nf2, nf1, nfBody>>
    /\ UNCHANGED supVars

\* <-nf2Post
ApiWithdraw(h) ==
    /\ api[h].pc = "await"
    /\ Len(nf2Post) > 0
    /\ nf2Post' = Tail(nf2Post)
    /\ api' = [api EXCEPT ![h].pc = "rdLoc", ![h].from = Head(nf2Post)]
    /\ UNCHANGED <<nf2, nf1, nfBody>>
    /\ UNCHANGED supVars

\* json.Marshal(nfBody) reads the field Location ...
ApiReadLocation(h) ==
    /\ api[h].pc = "rdLoc"
    /\ api' = [api EXCEPT ![h].pc = "rdTime", ![h].tmp.Location = nfBody.Location]
    /\ UNCHANGED <<nf2, nf1, nfBody, nf2Post>>
    /\ UNCHANGED supVars

\* ... and the field Time; then w.WriteHeader(http.StatusOK); w.Write(respbody)
ApiReadTime(h) ==
    /\ api[h].pc = "rdTime"
    /\ LET v == [api[h].tmp EXCEPT !.Time = nfBody.Time] IN
       api' = [api EXCEPT ![h].pc = "done", ![h].tmp = v,
                          ![h].w = Write(WriteHeader(@, 200), Marshal(v))]
    /\ UNCHANGED <<nf2, nf1, nfBody, nf2Post>>
    /\ UNCHANGED supVars

apiHandler(h) ==
    \/ ApiPost(h)
    \/ ApiDoReturn(h)
    \/ ApiDoFail(h)
    \/ ApiWithdraw(h)
    \/ ApiReadLocation(h)
    \/ ApiReadTime(h)

(* ---------------- NF1: nf1Handler (/nf1) ---------------- *)

\* A client other than NF2 posts to /nf1.
Nf1Arrive(e) ==
    /\ nf1[<<"ext", e>>].pc = "new"
    /\ IF e = 1 THEN TRUE ELSE nf1[<<"ext", e - 1>>].pc # "new"
    /\ Admitted < MaxReq
    /\ \E b \in ExtBodies :
         nf1' = [nf1 EXCEPT ![<<"ext", e>>] = [NewNf1 EXCEPT !.pc = "start", !.body = b]]
    /\ UNCHANGED <<api, nf2, nfBody, nf2Post>>
    /\ UNCHANGED supVars

\* From DumpRequest to the decoder having read one JSON value from the body.
Nf1Begin(r) ==
    /\ nf1[r].pc = "start"
    /\ LET b == nf1[r].body
           acked == Write(nf1[r].w, Ack)
       IN  nf1' = [nf1 EXCEPT ![r] =
             IF b.k = "ioerr"
               THEN [@ EXCEPT !.pc = "done", !.w = HttpError(@, "dump error", 500)]
             ELSE IF b.k = "nil" \/ ~SyntaxOk(b)
               THEN [@ EXCEPT !.pc = "done", !.w = WriteHeader(acked, 400)]
             ELSE [@ EXCEPT !.pc = "wrLoc", !.w = acked]]
    /\ UNCHANGED <<api, nf2, nfBody, nf2Post>>
    /\ UNCHANGED supVars

\* Decode(&nfBody) stores the member "location" ...
Nf1DecodeLocation(r) ==
    /\ nf1[r].pc = "wrLoc"
    /\ nfBody' = [nfBody EXCEPT !.Location = DecodeField(nf1[r].body.location, @)]
    /\ nf1' = [nf1 EXCEPT ![r].pc = "wrTime"]
    /\ UNCHANGED <<api, nf2, nf2Post>>
    /\ UNCHANGED supVars

\* ... and the member "time", and returns its error, if any.
Nf1DecodeTime(r) ==
    /\ nf1[r].pc = "wrTime"
    /\ nfBody' = [nfBody EXCEPT !.Time = DecodeField(nf1[r].body.time, @)]
    /\ nf1' = [nf1 EXCEPT ![r] =
         IF DecodeErr(nf1[r].body)
           THEN [@ EXCEPT !.pc = "done", !.w = WriteHeader(@, 400)]
           ELSE [@ EXCEPT !.pc = "send"]]
    /\ UNCHANGED <<api, nf2, nf2Post>>
    /\ UNCHANGED supVars

\* A send that completes only while a receiver waits (an unbuffered channel).
CanDepositUnbuffered == \E h \in Slots : api[h].pc = "await"

\* The send nf2Post <- true can complete.
CanDeposit == Len(nf2Post) < Nf2PostCap

\* nf2Post <- true
Nf1Send(r) ==
    /\ nf1[r].pc = "send"
    /\ CanDeposit
    /\ nf2Post' = Append(nf2Post, r)
    /\ nf1' = [nf1 EXCEPT ![r].pc = "done"]
    /\ UNCHANGED <<api, nf2, nfBody>>
    /\ UNCHANGED supVars

nf1Handler(r) ==
    \/ Nf1Begin(r)
    \/ Nf1DecodeLocation(r)
    \/ Nf1DecodeTime(r)
    \/ Nf1Send(r)

(* ---------------- NF2: handlerWithCtx (/nf2) ---------------- *)

\* A client other than NF1 posts to /nf2.
Nf2Arrive(e) ==
    /\ nf2[<<"ext", e>>].pc = "new"
    /\ IF e = 1 THEN TRUE ELSE nf2[<<"ext", e - 1>>].pc # "new"
    /\ Admitted < MaxReq
    /\ \E b \in ExtBodies :
         nf2' = [nf2 EXCEPT ![<<"ext", e>>] = [NewNf2 EXCEPT !.pc = "start", !.body = b]]
    /\ UNCHANGED <<api, nf1, nfBody, nf2Post>>
    /\ UNCHANGED supVars

\* The caller goes away (or the server is closed): r.Context() is cancelled.
Nf2CtxCancel(q) ==
    /\ nf2[q].pc = "select"
    /\ ~nf2[q].cancelled
    /\ nf2' = [nf2 EXCEPT ![q].cancelled = TRUE]
    /\ UNCHANGED <<api, nf1, nfBody, nf2Post>>
    /\ UNCHANGED supVars

\* From DumpRequest to the select statement.
Nf2Begin(q) ==
    /\ nf2[q].pc = "start"
    /\ LET b == nf2[q].body IN
       nf2' = [nf2 EXCEPT ![q] =
             IF b.k = "ioerr"
               THEN [@ EXCEPT !.pc = "done", !.w = HttpError(@, "dump error", 500)]
             ELSE IF b.k = "nil" \/ DecodeErr(b)
               THEN [@ EXCEPT !.pc = "done", !.w = WriteHeader(@, 400)]
             ELSE [@ EXCEPT !.pc = "select", !.nf1Body = DecodeLocal(b),
                            !.w = Write(@, Ack)]]
    /\ UNCHANGED <<api, nf1, nfBody, nf2Post>>
    /\ UNCHANGED supVars

\* case <-time.After(1 * time.Second): build the message and start client.Do,
\* which fails at once when the request's context is already cancelled.
Nf2TimerFires(q) ==
    /\ nf2[q].pc = "select"
    /\ LET nf1location == nf2[q].nf1Body.Location
           msg == [Location |-> NF2Callback, Time |-> Now(q)]
       IN  IF nf2[q].cancelled
             THEN /\ nf2' = [nf2 EXCEPT ![q].pc = "done", ![q].nf1Body = msg,
                                        ![q].target = nf1location, ![q].w = Finish(@)]
                  /\ UNCHANGED nf1
             ELSE /\ nf2' = [nf2 EXCEPT ![q].pc = "doing", ![q].nf1Body = msg,
                                        ![q].target = nf1location,
                                        ![q].sent = Marshal(msg)]
                  /\ IF nf1location = NF1Callback
                       THEN nf1' = [nf1 EXCEPT ![<<"fu", q[2]>>] =
                                      [NewNf1 EXCEPT !.pc = "start", !.body = Marshal(msg)]]
                       ELSE UNCHANGED nf1
    /\ UNCHANGED <<api, nfBody, nf2Post>>
    /\ UNCHANGED supVars

\* client.Do returns the response, which NF1's server sends when nf1Handler returns.
Nf2DoReturn(q) ==
    /\ nf2[q].pc = "doing"
    /\ nf2[q].target = NF1Callback => nf1[<<"fu", q[2]>>].pc = "done"
    /\ nf2' = [nf2 EXCEPT ![q].pc = "done", ![q].w = Finish(@)]
    /\ UNCHANGED <<api, nf1, nfBody, nf2Post>>
    /\ UNCHANGED supVars

\* client.Do returns an error (transport failure, timeout, cancelled context).
Nf2DoFail(q) ==
    /\ nf2[q].pc = "doing"
    /\ nf2' = [nf2 EXCEPT ![q].pc = "done", ![q].w = Finish(@)]
    /\ UNCHANGED <<api, nf1, nfBody, nf2Post>>
    /\ UNCHANGED supVars

\* case <-ctx.Done(): http.Error(w, err.Error(), http.StatusInternalServerError)
Nf2Cancelled(q) ==
    /\ nf2[q].pc = "select"
    /\ nf2[q].cancelled
    /\ nf2' = [nf2 EXCEPT ![q].pc = "done",
                          ![q].w = HttpError(@, "context canceled", 500)]
    /\ UNCHANGED <<api, nf1, nfBody, nf2Post>>
    /\ UNCHANGED supVars

handlerWithCtx(q) ==
    \/ Nf2Begin(q)
    \/ Nf2TimerFires(q)
    \/ Nf2DoReturn(q)
    \/ Nf2DoFail(q)
    \/ Nf2Cancelled(q)

(* ---------------- Specifications ---------------- *)

Environment ==
    \/ \E h \in Slots : ApiArrive(h) \/ ApiCtxCancel(h)
    \/ \E e \in Slots : Nf1Arrive(e) \/ Nf2Arrive(e)
    \/ \E q \in Nf2Ids : Nf2CtxCancel(q)

XNext ==
    \/ Environment
    \/ \E h \in Slots : apiHandler(h)
    \/ \E r \in Nf1Ids : nf1Handler(r)
    \/ \E q \in Nf2Ids : handlerWithCtx(q)

\* The handlers of both nodes, serving requests.
Spec == Init /\ [][XNext]_vars

\* The supervisors of both nodes, from start to process exit.
SupSpec == Init /\ [][SupNext]_vars

(* ---------------- One exchange at a time ---------------- *)

\* No exchange is in flight.
Quiet ==
    /\ \A h \in Slots : api[h].pc \in {"new", "done"}
    /\ \A h \in Slots : nf2[<<"api", h>>].pc \in {"new", "done"}
    /\ \A h \in Slots : nf1[<<"fu", h>>].pc \in {"new", "done"}

\* Bodies from which Decode stores nothing.
StoresNothing(b) == b.k \in {"nil", "ioerr", "empty", "syntax"}

\* /nf2loc is posted while no other exchange is in flight; posts from elsewhere
\* carry bodies that are not JSON; no context is cancelled and no client.Do fails.
ScenarioNext ==
    \/ \E h \in Slots : Quiet /\ ApiArrive(h) /\ ~api'[h].dumpErr
    \/ \E e \in Slots : Nf1Arrive(e) /\ StoresNothing(nf1'[<<"ext", e>>].body)
    \/ \E e \in Slots : Nf2Arrive(e) /\ StoresNothing(nf2'[<<"ext", e>>].body)
    \/ \E h \in Slots : ApiPost(h)
    \/ \E h \in Slots : ApiDoReturn(h)
    \/ \E h \in Slots : ApiWithdraw(h)
    \/ \E h \in Slots : ApiReadLocation(h)
    \/ \E h \in Slots : ApiReadTime(h)
    \/ \E r \in Nf1Ids : nf1Handler(r)
    \/ \E q \in Nf2Ids : Nf2Begin(q)
    \/ \E q \in Nf2Ids : Nf2TimerFires(q)
    \/ \E q \in Nf2Ids : Nf2DoReturn(q)

\* Every goroutine that can run does run, the timer fires, and responses arrive.
ScenarioFair ==
    /\ \A h \in Slots :
         WF_vars(ApiPost(h) \/ ApiDoReturn(h) \/ ApiWithdraw(h)
                 \/ ApiReadLocation(h) \/ ApiReadTime(h))
    /\ \A r \in Nf1Ids : WF_vars(nf1Handler(r))
    /\ \A q \in Nf2Ids : WF_vars(Nf2Begin(q) \/ Nf2TimerFires(q) \/ Nf2DoReturn(q))

ScenarioSpec == Init /\ [][ScenarioNext]_vars /\ ScenarioFair

(* ------------------------------------------------------------------ *)
(* Properties                                                         *)
(* ------------------------------------------------------------------ *)

\* A body that decodes as a LocationMessage: a JSON object whose members
\* "location" and "time", where present, are strings.
Decodable(b) == b.k = "obj" /\ b.location.t # "bad" /\ b.time.t # "bad"

\* A body that is empty or cannot be decoded as a LocationMessage.
Undecodable(b) == b.k \in {"nil", "empty", "syntax"} \/ (b.k = "obj" /\ ~Decodable(b))

\* C1: an apiHandler suspended in <-nf2Post whose context is cancelled is not
\* left suspended (it can proceed without a deposit), consumes no deposit, and
\* answers with status 500.
C1_CancelAbortsAwait ==
    \A h \in Slots :
      /\ (api[h].pc = "await" /\ api[h].cancelled) => ENABLED apiHandler(h)
      /\ (api[h].cancelled /\ api[h].pc \in {"rdLoc", "rdTime", "done"}) =>
            /\ api[h].from = NoId
            /\ api[h].pc = "done" => api[h].w.status = 500

\* C2: once RunServer has returned, every startHTTPServer goroutine it launched
\* has sent its completion signal.
C2_ReturnAwaitsEveryTask ==
    \A n \in Nodes :
      mpc[n] # "running" => \A s \in Servers(n) : tpc[n][s] = "done"

\* C3: when the signal has fired and the program has ended, Close has been
\* invoked exactly once on each owned server, whether every server was still
\* serving when the signal fired or some had exited on their own error before.
C3_SignalClosesEveryServer ==
    \A n \in Nodes :
      (sigFired[n] /\ mpc[n] = "exited" /\ \A s \in Servers(n) : ownErr[n][s] # "after") =>
         \A s \in Servers(n) : closeCalls[n][s] = 1

\* The messages of exchange h, and the response /nf2loc ends with.
C4Posted(h) == Marshal([Location |-> NF1Callback, Time |-> Now(<<"nf1", h>>)])

C4FollowUp(h) == Marshal([Location |-> NF2Callback, Time |-> Now(<<"api", h>>)])

C4Returned(h) ==
    /\ api[h].pc = "done"
    /\ api[h].w = [status |-> 200, body |-> <<C4FollowUp(h)>>]

C4Messages ==
    \A h \in Slots :
      /\ nf2[<<"api", h>>].pc # "new" => nf2[<<"api", h>>].body = C4Posted(h)
      /\ nf2[<<"api", h>>].pc = "doing" =>
            /\ nf2[<<"api", h>>].w = [status |-> 200, body |-> <<Ack>>]
            /\ nf2[<<"api", h>>].sent = C4FollowUp(h)
      /\ nf1[<<"fu", h>>].pc # "new" => nf1[<<"fu", h>>].body = C4FollowUp(h)

C5_DepositNeverBlocks ==
    \A r \in Nf1Ids : nf1[r].pc = "send" => ENABLED Nf1Send(r)

\* No request other than r whose body decodes has stored anything in nfBody.
NoOtherDeposit(r) ==
    \A r2 \in Nf1Ids \ {r} :
      ~Decodable(nf1[r2].body) \/ nf1[r2].pc \in {"new", "start", "wrLoc"}

\* C6: when an apiHandler has withdrawn the deposit of r and no second deposit
\* has taken place, the payload it returns is the message r deposited.
C6_AwaitReturnsDeposit ==
    \A h \in Slots :
      (api[h].pc = "done" /\ api[h].from # NoId /\ NoOtherDeposit(api[h].from)) =>
         api[h].w.body = <<nf1[api[h].from].body>>

\* C7: a request to /nf1 or /nf2 whose body is empty or undecodable is
\* answered with status 400.
C7_BadBodyAnswered400 ==
    /\ \A r \in Nf1Ids :
         (nf1[r].pc = "done" /\ Undecodable(nf1[r].body)) => nf1[r].w.status = 400
    /\ \A q \in Nf2Ids :
         (nf2[q].pc = "done" /\ Undecodable(nf2[q].body)) => nf2[q].w.status = 400

\* C8: a request whose body is empty or undecodable never reaches the
\* deposit/forward path: on NF1 it never sends on nf2Post and unblocks no
\* apiHandler; on NF2 it never reaches the select (timer), never acknowledges
\* and never posts a follow-up.
C8_BadBodyNeverDepositsOrForwards ==
    /\ \A r \in Nf1Ids :
         Undecodable(nf1[r].body) =>
            /\ nf1[r].pc # "send"
            /\ \A i \in 1..Len(nf2Post) : nf2Post[i] # r
            /\ \A h \in Slots : api[h].from # r
    /\ \A q \in Nf2Ids :
         Undecodable(nf2[q].body) =>
            /\ nf2[q].pc \notin {"select", "doing"}
            /\ nf2[q].sent = NoObj("none")
            /\ nf2[q].w.body = <<>>

C8_Witness ==
    /\ \E r \in Nf1Ids :
         nf1[r].pc = "done" /\ nf1[r].body.k = "obj" /\ Undecodable(nf1[r].body)
    /\ \E h \in Slots : api[h].pc = "await"

\* An apiHandler is between its withdrawal and the end of its read of nfBody.
InReadWindow(h) == api[h].pc \in {"rdLoc", "rdTime"}

\* C9: nfBody is not written while an apiHandler is between withdrawing and
\* reading it, and no two receiver handlers are inside Decode(&nfBody) at once.
C9_PayloadSerialized ==
    /\ [][(\E h \in Slots : InReadWindow(h)) => nfBody' = nfBody]_vars
    /\ [](\A r1, r2 \in Nf1Ids :
            (nf1[r1].pc = "wrTime" /\ nf1[r2].pc \in {"wrLoc", "wrTime"}) => r1 = r2)

\* C10: the gate never holds more than one pending deposit.
C10_GateHoldsAtMostOne == Len(nf2Post) <= 1

C10_Witness ==
    /\ Len(nf2Post) = 1
    /\ \E r \in Nf1Ids : nf1[r].pc = "send"
    /\ \E h \in Slots : api[h].pc = "await"

\* The /nf1 requests whose send on nf2Post has completed.
Deposited == {r \in Nf1Ids : nf1[r].pc = "done" /\ Decodable(nf1[r].body)}

\* The apiHandler invocations whose receive from nf2Post has completed.
Withdrawn == {h \in Slots : api[h].from # NoId}

\* C11: one deposit unblocks exactly one waiting apiHandler: every completed
\* deposit is either still in the gate or was received by exactly one handler
\* (no two handlers proceed on the same deposit), and while the gate is empty
\* a handler suspended on it stays suspended.
C11_DepositUnblocksOne ==
    /\ Cardinality(Withdrawn) + Len(nf2Post) = Cardinality(Deposited)
    /\ \A h1, h2 \in Withdrawn : api[h1].from = api[h2].from => h1 = h2
    /\ \A h \in Slots :
         (api[h].pc = "await" /\ Len(nf2Post) = 0) => ~ENABLED apiHandler(h)

C11_Witness ==
    \E h1, h2 \in Slots :
      /\ h1 # h2
      /\ api[h1].from # NoId
      /\ api[h2].pc = "await"
      /\ Cardinality(Deposited) = 1
      /\ Len(nf2Post) = 0

\* What the caller of a /nf2 request and NF2's peer have seen of it.
Acked(q) == \E i \in 1..Len(nf2[q].w.body) : nf2[q].w.body[i] = Ack

FollowUpSent(q) == nf2[q].sent # NoObj("none")

CancelReported(q) ==
    \E i \in 1..Len(nf2[q].w.body) : nf2[q].w.body[i] = "context canceled"

\* C12: for a /nf2 request that was decoded and acknowledged, exactly one of
\* the two outcomes occurs: the follow-up POST is sent and no cancellation
\* error is reported (the request was not cancelled before the timer fired),
\* or no follow-up is sent and the cancellation error is reported (it was
\* cancelled first). No follow-up is sent before the acknowledgement.
C12_TimerCancelRace ==
    \A q \in Nf2Ids :
      /\ FollowUpSent(q) => Acked(q)
      /\ ~(FollowUpSent(q) /\ CancelReported(q))
      /\ (nf2[q].pc = "done" /\ Acked(q)) =>
            IF nf2[q].cancelled
              THEN ~FollowUpSent(q) /\ CancelReported(q)
              ELSE FollowUpSent(q) /\ ~CancelReported(q)

\* Server s of NF1 failed at listener/TLS setup while its sibling s2 serves
\* and no signal has fired.
C14Case(s, s2) ==
    /\ s # s2
    /\ ownErr["NF1"][s] # "no"
    /\ tpc["NF1"][s2] = "serving"
    /\ ~sigFired["NF1"]

\* C14: in NF1 a server that fails at setup never serves and goes on to its
\* completion signal; its sibling keeps serving (it is not closed and does
\* not leave ListenAndServe) and RunServer does not return, as long as the
\* signal has not fired.
C14_SetupFailureIsolated ==
    /\ [](\A s \in Servers("NF1") :
            ownErr["NF1"][s] # "no" => tpc["NF1"][s] \in {"send", "done"})
    /\ [](\A s, s2 \in Servers("NF1") :
            C14Case(s, s2) => mpc["NF1"] = "running" /\ ~inShutdown["NF1"][s2])
    /\ [][\A s, s2 \in Servers("NF1") :
            (C14Case(s, s2) /\ ~sigFired'["NF1"]) => tpc'["NF1"][s2] = "serving"]_vars

C14_Witness ==
    \E s, s2 \in Servers("NF1") :
      /\ C14Case(s, s2)
      /\ tpc["NF1"][s] = "done"
      /\ received["NF1"] = 1
      /\ stopServerCh["NF1"] = 0

\* C13: a /nf2 request that ended in the select's ctx.Done case (the
\* cancellation error was written to its response) has status 500.
C13_CancelAnswered500 ==
    \A q \in Nf2Ids :
      (nf2[q].pc = "done" /\ CancelReported(q)) => nf2[q].w.status = 500

\* The values sent on stopServerCh so far, and the senders that have sent.
C15Tally(n) == stopServerCh[n] + received[n]

C15Returned(n) == {s \in Servers(n) : tpc[n][s] = "done"}

\* C15: every startHTTPServer goroutine that has returned, after Close or
\* after its own listen error, has added exactly one value to the tally (the
\* tally is the number of returned tasks plus the listener's one value); a
\* returned task never sends again; and a task at its send is never stuck
\* there: the send can complete, or RunServer is still to receive.
C15_OneSignalPerTask ==
    /\ [](\A n \in Nodes :
            C15Tally(n) = Cardinality(C15Returned(n)) + (IF lsent[n] THEN 1 ELSE 0))
    /\ [](\A n \in Nodes : \A s \in Servers(n) :
            (tpc[n][s] = "send" /\ Alive(n)) => CanSendStop(n) \/ mpc[n] = "running")
    /\ [][\A n \in Nodes : \A s \in Servers(n) :
            /\ tpc[n][s] = "done" => tpc'[n][s] = "done"
            /\ (tpc[n][s] # "done" /\ tpc'[n][s] = "done") =>
                  tpc[n][s] = "send" /\ C15Tally(n)' = C15Tally(n) + 1]_vars

C15_Witness ==
    \E s, s2 \in Servers("NF1") :
      /\ tpc["NF1"][s] = "done" /\ ownErr["NF1"][s] = "before"
      /\ tpc["NF1"][s2] = "done" /\ ownErr["NF1"][s2] = "no"
      /\ closeCalls["NF1"][s2] = 1
      /\ lsent["NF1"]

\* apiHandler h has ended on the error of its client.Do: it posted, and
\* returned having written nothing.
C16Failed(h) ==
    /\ api[h].pc = "done"
    /\ nf2[<<"api", h>>].pc # "new"
    /\ api[h].w.body = <<>>

\* C16: an apiHandler whose client.Do fails ends there: it reaches <-nf2Post
\* only with NF2's response in hand; the step in which it ends changes
\* neither nf2Post nor nfBody; it has withdrawn nothing, its response carries
\* no payload, and it does nothing afterwards.
C16_TransportErrorEndsHandler ==
    /\ [][\A h \in Slots :
            /\ (api[h].pc = "doing" /\ api'[h].pc # "doing") =>
                  \/ api'[h].pc = "await" /\ nf2[<<"api", h>>].pc = "done"
                  \/ C16Failed(h)' /\ nf2Post' = nf2Post /\ nfBody' = nfBody
            /\ C16Failed(h) => api'[h] = api[h]]_vars
    /\ [](\A h \in Slots :
            C16Failed(h) => api[h].from = NoId /\ api[h].w = [status |-> 200, body |-> <<>>])

C16_Witness ==
    \E h \in Slots : C16Failed(h) /\ nf2Post = <<(<<"fu", h>>)>> /\ nfBody # ZeroNF

\* Unsolicited posts to /nf1 arrive, and are handled to the end, before the
\* first /nf2loc request arrives.
LeftoverNext ==
    \/ \E e \in Slots : api[1].pc = "new" /\ Nf1Arrive(e)
    \/ \E h \in Slots :
         /\ \A e \in Slots : nf1[<<"ext", e>>].pc \in {"new", "done"}
         /\ ApiArrive(h)
    \/ \E h \in Slots : ApiCtxCancel(h)
    \/ \E q \in Nf2Ids : Nf2CtxCancel(q)
    \/ \E h \in Slots : apiHandler(h)
    \/ \E r \in Nf1Ids : nf1Handler(r)
    \/ \E q \in Nf2Ids : handlerWithCtx(q)

LeftoverSpec == Init /\ [][LeftoverNext]_vars

\* C17: a deposit left in the gate by an unsolicited POST to /nf1 that was
\* handled before a /nf2loc call arrived is never received by that call, and
\* the payload the call writes back is not the one that POST stored.
C17_NoStaleDeposit ==
    \A h \in Slots : \A e \in Slots :
      api[h].pc = "done" =>
        /\ api[h].from # <<"ext", e>>
        /\ Marshal(api[h].tmp) # nf1[<<"ext", e>>].body

\* C18: a goroutine that stands at its send on stopServerCh (a server task
\* at the end of startHTTPServer, or the cancellation listener after its last
\* Close) can complete the send at once, in NF1 and in NF2.
C18_StopSendNeverBlocks ==
    \A n \in Nodes :
      Alive(n) =>
        /\ \A s \in Servers(n) : tpc[n][s] = "send" => CanSendStop(n)
        /\ (lstage[n] = Len(Owned(n)) /\ ~lsent[n]) => CanSendStop(n)

\* The /nf2loc calls answered with status 200 and a payload.
Correlated == {h \in Slots : api[h].w.status = 200 /\ Len(api[h].w.body) > 0}

\* C19: a /nf2loc call is answered with a 200 payload only after its handler
\* has received from nf2Post, and with one payload only; so the payload
\* responses never outnumber the withdrawals, nor these the completed
\* deposits, and completed deposits minus withdrawals is 0 or 1.
C19_ResponseAfterWithdrawal ==
    /\ \A h \in Correlated : h \in Withdrawn /\ Len(api[h].w.body) = 1
    /\ \A h \in Slots : api[h].pc \in {"rdLoc", "rdTime"} => h \in Withdrawn
    /\ Cardinality(Correlated) <= Cardinality(Withdrawn)
    /\ Cardinality(Withdrawn) <= Cardinality(Deposited)
    /\ Cardinality(Deposited) - Cardinality(Withdrawn) \in {0, 1}

C19_Witness ==
    /\ Cardinality(Correlated) = 1
    /\ Cardinality(Deposited) = 2
    /\ Cardinality(Withdrawn) = 1

\* C20: no step of an nf1Handler whose request body fails to decode changes
\* nfBody.
C20_FailedDecodeKeepsPayload ==
    [][\A r \in Nf1Ids :
         (Undecodable(nf1[r].body) /\ nf1'[r] # nf1[r]) => nfBody' = nfBody]_vars

=============================================================================
